---- MODULE Spec2Model ----
(***************************************************************************)
(* Model of the review orchestration core of the AI bug finder backend:    *)
(*   backend/src/app.py       review_code (validation, prompt, recovery)   *)
(*   backend/src/analysis.py  run_static_analysis (scratch file + pylint)  *)
(*   backend/src/model.py     generate_review, _ensure_model, Gemini call  *)
(* Requests are served by worker threads (FastAPI runs a sync endpoint in  *)
(* a thread pool); each thread walks through review_code step by step.     *)
(* Strings are modelled as sequences of lexemes, files as a set of names.  *)
(***************************************************************************)
EXTENDS Integers, Sequences, FiniteSets, TLC

\* ------------------------------------------------------------------ bounds
NumThreads == 2
MaxRequests == 3
MaxLen == 5

Threads == 1..NumThreads

\* The threads that take requests from the transport layer under Spec.  The
\* requests of review_code share nothing but the module state of model.py and
\* the names of scratch files; the races on that module state are explored
\* with every thread under SpecLoad, and Spec serves one request at a time.
Workers == {1}

\* ------------------------------------------------------- program constants
MAX_CODE_LENGTH == 20000
MAX_ANALYSIS_CODE == 20000

\* --------------------------------------------------------------- variables
VARIABLES
    GEMINI_API_KEY,  \* model.py:10, truthiness of the configured credential
    _tokenizer,      \* model.py:14
    _model,          \* model.py:15
    _device,         \* model.py:16
    loads,           \* completed from_pretrained calls, per kind (observation)
    files,           \* scratch files that exist on disk (names)
    nreq,            \* requests received so far (also names the scratch file)
    pc,              \* per thread: position in review_code and its callees
    code,            \* per thread: req.code
    tmp_path,        \* per thread: run_static_analysis' tmp_path (0 = None)
    static_report,   \* per thread: static_report of review_code
    prompt,          \* per thread: prompt of review_code
    review_text,     \* per thread: review_text of review_code
    decoded,         \* per thread: decoded of review_code
    response,        \* per thread: the HTTP outcome of the request
    log              \* per thread: what the request did (observation only)

vars == <<GEMINI_API_KEY, _tokenizer, _model, _device, loads, files, nreq, pc,
          code, tmp_path, static_report, prompt, review_text, decoded,
          response, log>>

\* The module state of model.py.
globals == <<GEMINI_API_KEY, _tokenizer, _model, _device, loads>>

\* The locals of review_code that the generation and recovery steps set.
gen_locals == <<review_text, decoded>>

\* The locals of review_code and run_static_analysis set before generation.
pre_locals == <<code, tmp_path, static_report, prompt>>

\* ------------------------------------------------------------------ values
\* A Python dict with no key.
EmptyObj == [k \in {} |-> TRUE]

\* A Python str, as the sequence of its lexemes.
Str(toks) == [isstr |-> TRUE, text |-> toks]

\* A value that is not a str (isinstance(v, str) is False).
NonStr == [isstr |-> FALSE, text |-> <<"object">>]

NoText == Str(<<>>)

NoCode == [isstr |-> TRUE, len |-> 0]

NoDecoded == [kind |-> "None", obj |-> EmptyObj]

NoResponse == [status |-> 0, detail |-> <<>>, payload |-> EmptyObj]

\* What one request did: its number, the body it carried, the calls it made
\* (run_static_analysis, generate_review, tokenizer/model inference), the
\* providers that produced or failed its result, the JSON parse attempts, the
\* linter's outcome, the scratch file it created, and what was raised.
\* No 200 body received.
NoData == [json |-> FALSE, isdict |-> FALSE, candidates |-> "none", output |-> "none",
           text |-> "none", response |-> "none", result |-> "none"]

NoLog == [id |-> 0, code_field |-> "none", sa |-> 0, gen |-> 0, infer |-> 0,
          providers |-> <<>>, attempts |-> <<>>, tool |-> "none",
          created |-> 0, sa_raised |-> "none", init_error |-> "none",
          gen_error |-> "none", prompt_raised |-> "none",
          body |-> NoData, body_field |-> "none"]

HTTPException(status, detail) ==
    [status |-> status, detail |-> detail, payload |-> EmptyObj]

\* An exception no handler of the application catches: the framework answers
\* 500 Internal Server Error.
Unhandled == HTTPException(500, <<"Internal Server Error">>)

\* ------------------------------------------------------------ request input
\* Lengths of submitted code around the limits of app.py:24 and analysis.py:8.
CodeLens == {0, 1, MAX_CODE_LENGTH, MAX_CODE_LENGTH + 1, 25000}

\* What the JSON body of POST /review carries under "code".
Bodies ==
    {[kind |-> "absent", len |-> 0], [kind |-> "null", len |-> 0],
     [kind |-> "number", len |-> 1]}
    \cup {[kind |-> "str", len |-> n] : n \in CodeLens}

\* class ReviewRequest(BaseModel): code: str.  The request model accepts a
\* str; a missing or null field is a validation error (422); a number is a
\* validation error or, with a coercing validator, converted to its text.
ReviewRequest(body) ==
    CASE body.kind = "str" -> {[ok |-> TRUE, code |-> [isstr |-> TRUE, len |-> body.len]]}
      [] body.kind = "number" ->
            {[ok |-> FALSE, code |-> NoCode],
             [ok |-> TRUE, code |-> [isstr |-> TRUE, len |-> body.len]]}
      [] OTHER -> {[ok |-> FALSE, code |-> NoCode]}

ValidationError ==
    HTTPException(422, <<"validation error">>)

\* ------------------------------------------------------------------ helpers
Finish(t, resp) ==
    /\ response' = [response EXCEPT ![t] = resp]
    /\ pc' = [pc EXCEPT ![t] = "done"]

Goto(t, label) == pc' = [pc EXCEPT ![t] = label]

Logged(t, field, value) == log' = [log EXCEPT ![t][field] = value]

\* ------------------------------------------------------------------- Init
TypeInit ==
    /\ _tokenizer = "None"
    /\ _model = "None"
    /\ _device = "None"
    /\ loads = [tokenizer |-> 0, model |-> 0]
    /\ files = {}
    /\ nreq = 0
    /\ code = [t \in Threads |-> NoCode]
    /\ tmp_path = [t \in Threads |-> 0]
    /\ static_report = [t \in Threads |-> ""]
    /\ prompt = [t \in Threads |-> <<>>]
    /\ review_text = [t \in Threads |-> NoText]
    /\ decoded = [t \in Threads |-> NoDecoded]
    /\ response = [t \in Threads |-> NoResponse]
    /\ log = [t \in Threads |-> NoLog]

Init ==
    /\ GEMINI_API_KEY \in BOOLEAN
    /\ TypeInit
    /\ pc = [t \in Threads |-> IF t \in Workers THEN "idle" ELSE "off"]

\* --------------------------------------------------------------- review_code
\* The transport layer builds ReviewRequest from the body and calls review_code.
Receive(t) ==
    /\ pc[t] = "idle"
    /\ nreq < MaxRequests
    /\ nreq' = nreq + 1
    /\ \E body \in Bodies : \E r \in ReviewRequest(body) :
          /\ log' = [log EXCEPT ![t] =
                          [NoLog EXCEPT !.id = nreq + 1,
                                        !.code_field = IF r.ok THEN "str" ELSE body.kind]]
          /\ IF r.ok
                THEN /\ code' = [code EXCEPT ![t] = r.code]
                     /\ response' = [response EXCEPT ![t] = NoResponse]
                     /\ Goto(t, "validate")
                ELSE /\ code' = [code EXCEPT ![t] = NoCode]
                     /\ Finish(t, ValidationError)
    /\ UNCHANGED <<globals, files, tmp_path, static_report, prompt, gen_locals>>

\* review_code without the test of app.py:30.
ValidateNoEmptyCheck(t) ==
    /\ pc[t] = "validate"
    /\ IF code[t].len > MAX_CODE_LENGTH
          THEN Finish(t, HTTPException(413, <<"Code payload too large">>))
          ELSE /\ Goto(t, "sa_enter")
               /\ UNCHANGED response
    /\ UNCHANGED <<globals, files, nreq, pre_locals, gen_locals, log>>

\* review_code without the test of app.py:32.
ValidateNoSizeCheck(t) ==
    /\ pc[t] = "validate"
    /\ IF code[t].len = 0 \/ ~code[t].isstr
          THEN Finish(t, HTTPException(400, <<"Missing code in request">>))
          ELSE /\ Goto(t, "sa_enter")
               /\ UNCHANGED response
    /\ UNCHANGED <<globals, files, nreq, pre_locals, gen_locals, log>>

\* app.py:30-33
Validate(t) ==
    /\ pc[t] = "validate"
    /\ IF code[t].len = 0 \/ ~code[t].isstr
          THEN Finish(t, HTTPException(400, <<"Missing code in request">>))
          ELSE IF code[t].len > MAX_CODE_LENGTH
          THEN Finish(t, HTTPException(413, <<"Code payload too large">>))
          ELSE /\ Goto(t, "sa_enter")
               /\ UNCHANGED response
    /\ UNCHANGED <<globals, files, nreq, pre_locals, gen_locals, log>>

\* ------------------------------------------------------- run_static_analysis
\* What subprocess.run(["pylint", ...], timeout=10) can do: raise (the tool is
\* missing, or it ran longer than the timeout), or complete with an exit code
\* (pylint exits non-zero when it reports issues or crashes) and two streams.
ToolOutcomes ==
    {[exc |-> e, rc |-> 0, stdout |-> "", stderr |-> ""] :
        e \in {"FileNotFoundError", "TimeoutExpired"}}
    \cup {[exc |-> "none", rc |-> rc, stdout |-> out, stderr |-> err] :
            rc \in {0, 1}, out \in {"", "STDOUT"}, err \in {"", "STDERR"}}

\* How the linter's run ended, for the claims that speak of tool failure.
ToolClass(o) ==
    CASE o.exc = "FileNotFoundError" -> "missing"
      [] o.exc = "TimeoutExpired" -> "timeout"
      [] o.rc # 0 -> "failed"
      [] OTHER -> "ok"

\* str(e) of the exceptions subprocess.run raises.
ExcText(e) ==
    IF e = "TimeoutExpired" THEN "Command 'pylint' timed out after 10 seconds"
    ELSE "[Errno 2] No such file or directory: 'pylint'"

\* analysis.py:29-38: output = proc.stdout or proc.stderr or "", or str(e).
ToolOutput(o) ==
    IF o.exc # "none" THEN ExcText(o.exc)
    ELSE IF o.stdout # "" THEN o.stdout
    ELSE IF o.stderr # "" THEN o.stderr
    ELSE ""

\* analysis.py:19-27: the two early returns, then the scratch file is created
\* and the code written to it, outside any try block.
SaEnter(t) ==
    /\ pc[t] = "sa_enter"
    /\ IF ~code[t].isstr
          THEN /\ static_report' = [static_report EXCEPT ![t] = "Invalid code format"]
               /\ Logged(t, "sa", log[t].sa + 1)
               /\ Goto(t, "prompt")
               /\ UNCHANGED <<files, tmp_path, response>>
          ELSE IF code[t].len > MAX_ANALYSIS_CODE
          THEN /\ static_report' = [static_report EXCEPT ![t] = "Code too large for analysis"]
               /\ Logged(t, "sa", log[t].sa + 1)
               /\ Goto(t, "prompt")
               /\ UNCHANGED <<files, tmp_path, response>>
          ELSE \/ \* NamedTemporaryFile raises (no temp directory, no space)
                  /\ log' = [log EXCEPT ![t].sa = @ + 1, ![t].sa_raised = "OSError"]
                  /\ Finish(t, Unhandled)
                  /\ UNCHANGED <<files, tmp_path, static_report>>
               \/ \* the file is created; code.encode or tmp.write raises
                  /\ files' = files \cup {log[t].id}
                  /\ log' = [log EXCEPT ![t].sa = @ + 1, ![t].created = log[t].id,
                                        ![t].sa_raised = "UnicodeEncodeError"]
                  /\ Finish(t, Unhandled)
                  /\ UNCHANGED <<tmp_path, static_report>>
               \/ \* the file is created and written
                  /\ files' = files \cup {log[t].id}
                  /\ tmp_path' = [tmp_path EXCEPT ![t] = log[t].id]
                  /\ log' = [log EXCEPT ![t].sa = @ + 1, ![t].created = log[t].id]
                  /\ Goto(t, "sa_run")
                  /\ UNCHANGED <<static_report, response>>
    /\ UNCHANGED <<globals, nreq, code, prompt, gen_locals>>

\* analysis.py:29-38: the linter runs; any exception becomes the output.
SaRun(t) ==
    /\ pc[t] = "sa_run"
    /\ \E o \in ToolOutcomes :
          /\ static_report' = [static_report EXCEPT ![t] = ToolOutput(o)]
          /\ Logged(t, "tool", ToolClass(o))
    /\ Goto(t, "sa_finally")
    /\ UNCHANGED <<globals, files, nreq, code, tmp_path, prompt, gen_locals, response>>

\* analysis.py:39-46: the finally block removes the file if it exists; an
\* exception of os.remove is swallowed and leaves the file.  Then return output.
SaFinally(t) ==
    /\ pc[t] = "sa_finally"
    /\ \/ files' = IF tmp_path[t] # 0 /\ tmp_path[t] \in files
                      THEN files \ {tmp_path[t]} ELSE files
       \/ /\ tmp_path[t] # 0 /\ tmp_path[t] \in files
          /\ files' = files
    /\ Goto(t, "prompt")
    /\ UNCHANGED <<globals, nreq, pre_locals, gen_locals, response, log>>

\* The positions inside run_static_analysis.
SaPcs == {"sa_enter", "sa_run", "sa_finally"}

\* ------------------------------------------------------------------ prompt
Framing(text) == [part |-> "framing", text |-> text]

\* A replacement field of an f-string: the expression, its format specifier
\* and the specifiers of the fields nested in that specifier.
Field(expr, spec, nested) ==
    [part |-> "field", expr |-> expr, spec |-> spec, nested |-> nested]

\* The format specifiers str.__format__ accepts, among those that occur.
ValidSpecs == {""}

\* Formatting a str raises ValueError on any other specifier; the nested fields
\* are formatted first.
FieldRaises(f) ==
    \/ \E i \in DOMAIN f.nested : f.nested[i] \notin ValidSpecs
    \/ f.spec \notin ValidSpecs

\* app.py:41-75: the two f-strings.  In the structured one the braces of the
\* JSON shape are not doubled, so lines 46-53 are one replacement field: the
\* expression "review", a specifier running to the closing brace, and inside
\* it the two patch examples as nested fields "op" with their own specifiers.
Template(key) ==
    IF key
    THEN << Framing("You are an expert code reviewer and patch generator."),
            Framing("Return JSON only with the following shape:"),
            Field("'review'", "<short text summary>, 'patches': [..], 'full_file': ..",
                  << "'replace_line', 'line': <1-based line number>, 'content': '...'",
                     "'replace_range', 'start': <start>, 'end': <end>, 'content': '...'" >>),
            Framing("Code:"), Field("req.code", "", <<>>),
            Framing("Static analysis (pylint):"), Field("static_report", "", <<>>),
            Framing("If you cannot produce patches, return an empty patches array") >>
    ELSE << Framing("You are an expert code reviewer."),
            Framing("Code:"), Field("req.code", "", <<>>),
            Framing("Static analysis (pylint):"), Field("static_report", "", <<>>),
            Framing("Please provide a concise, numbered list of issues") >>

\* Evaluation of the f-string: the first field that cannot be formatted raises,
\* otherwise every field is replaced by the value of its expression.
Compose(key, c, report) ==
    LET tpl == Template(key)
        bad == {i \in DOMAIN tpl : tpl[i].part = "field" /\ FieldRaises(tpl[i])}
        Value(f) == IF f.expr = "req.code" THEN [part |-> "code", text |-> c]
                    ELSE [part |-> "report", text |-> report]
    IN  IF bad # {}
        THEN [raised |-> "ValueError: Invalid format specifier", prompt |-> <<>>]
        ELSE [raised |-> "none",
              prompt |-> [i \in DOMAIN tpl |->
                            IF tpl[i].part = "field" THEN Value(tpl[i]) ELSE tpl[i]]]

\* app.py:38-75: nothing catches the exception of the f-string, so the
\* framework answers 500.
ComposePrompt(t) ==
    /\ pc[t] = "prompt"
    /\ LET r == Compose(GEMINI_API_KEY, code[t], static_report[t])
       IN  IF r.raised # "none"
           THEN /\ log' = [log EXCEPT ![t].prompt_raised = r.raised]
                /\ Finish(t, Unhandled)
                /\ UNCHANGED prompt
           ELSE /\ prompt' = [prompt EXCEPT ![t] = r.prompt]
                /\ Goto(t, "generate")
                /\ UNCHANGED <<response, log>>
    /\ UNCHANGED <<globals, files, nreq, code, tmp_path, static_report, gen_locals>>

\* ---------------------------------------------------------- generate_review
\* Texts a provider may produce; the recovery steps below are explored over
\* every text up to MaxLen lexemes under SpecNorm.
SampleTexts ==
    { <<"w">>, <<"{", "kR", "kP", "}">>, <<"w", "{", "kR", "kFn", "}">> }

\* model.py:119-123: the dev-mode review built around str(e).
DevReview(e) ==
    Str(<<"[DEV REVIEW] Model unavailable: ", e,
          "\n\nThis is a fallback review used for development.">>)

\* app.py:79-81: review_code turns any exception of generate_review into a 500.
GenerationError(e) == HTTPException(500, <<"Model generation error: ", e>>)

\* model.py:109-110: the provider is chosen by the credential alone.
GenerateReview(t) ==
    /\ pc[t] = "generate"
    /\ Logged(t, "gen", log[t].gen + 1)
    /\ Goto(t, IF GEMINI_API_KEY THEN "gemini" ELSE "em_check")
    /\ UNCHANGED <<globals, files, nreq, pre_locals, gen_locals, response>>

\* The values the endpoint may put under "candidates" in a 200 body: missing,
\* null, a string, an object, [], a list of strings, and a list of objects
\* whose first has a text content, no content, or a content that is no text.
CandidatesKinds ==
    {"absent", "null", "string", "dict", "empty_list", "strings",
     "objects", "objects_no_content", "objects_content_not_str"}

OutputKinds == {"absent", "str", "not_str"}

\* "text", "response" and "result" are only tested for presence.
FieldKinds == {"absent", "present"}

\* The bodies of a 200 response: no JSON at all, a JSON value that is no
\* object, and the objects over the keys model.py:88-96 looks at.
ResponseBodies ==
    {[json |-> FALSE, isdict |-> FALSE, candidates |-> "absent", output |-> "absent",
      text |-> "absent", response |-> "absent", result |-> "absent"],
     [json |-> TRUE, isdict |-> FALSE, candidates |-> "absent", output |-> "absent",
      text |-> "absent", response |-> "absent", result |-> "absent"]}
    \cup [json : {TRUE}, isdict : {TRUE}, candidates : CandidatesKinds,
          output : OutputKinds, text : FieldKinds, response : FieldKinds,
          result : FieldKinds]

\* What requests.post and the endpoint can do (model.py:67-84).
GeminiOutcomes ==
    {[kind |-> "error", e |-> e, data |-> NoData] :
        e \in {"requests library required for Gemini integration",
               "Gemini request failed", "Gemini API error 500"}}
    \cup {[kind |-> "ok", e |-> "none", data |-> d] : d \in ResponseBodies}

Raised(e) == [raised |-> e, value |-> NoText, field |-> "none"]

Returned(field, value) == [raised |-> "none", value |-> value, field |-> field]

\* Neither returned nor raised: the next test runs.
FallThrough == Returned("none", NoText)

\* model.py:89-90: len(data['candidates']) > 0, then
\* data['candidates'][0].get('content', '').
FromCandidates(c) ==
    CASE c = "null" -> Raised("object of type 'NoneType' has no len()")
      [] c = "dict" -> Raised("KeyError: 0")
      [] c \in {"string", "strings"} -> Raised("'str' object has no attribute 'get'")
      [] c = "objects" -> Returned("candidates", Str(<<"{", "kR", "kP", "}">>))
      [] c = "objects_no_content" -> Returned("candidates", Str(<<>>))
      [] c = "objects_content_not_str" -> Returned("candidates", NonStr)
      [] OTHER -> FallThrough

\* model.py:94-96: json.dumps of the first of the three keys present, a JSON
\* literal.
FromFields(d) ==
    IF d.text = "present" THEN Returned("text", Str(<<"1">>))
    ELSE IF d.response = "present" THEN Returned("response", Str(<<"1">>))
    ELSE IF d.result = "present" THEN Returned("result", Str(<<"1">>))
    ELSE FallThrough

\* model.py:86-98: the text taken from a 200 body, or the exception; str(data)
\* for a value that is no object and for an object none of the tests took.
ExtractText(o) ==
    LET d == o.data
    IN  IF ~d.json THEN Raised("Expecting value: line 1 column 1 (char 0)")
        ELSE IF ~d.isdict THEN Returned("str(data)", Str(<<"w">>))
        ELSE IF FromCandidates(d.candidates) # FallThrough
             THEN FromCandidates(d.candidates)
        ELSE IF d.output = "str" THEN Returned("output", Str(<<"w">>))
        ELSE IF FromFields(d) # FallThrough THEN FromFields(d)
        ELSE Returned("str(data)", Str(<<"{", "w", "}">>))

\* The remote provider with a failure handed to the local provider instead of
\* being raised.
GenerateReviewGeminiFallsBack(t) ==
    /\ pc[t] = "gemini"
    /\ \E o \in GeminiOutcomes :
          LET x == ExtractText(o)
              e == IF o.kind = "error" THEN o.e ELSE x.raised
          IN  IF e # "none"
              THEN /\ log' = [log EXCEPT ![t].providers = Append(@, "remote"),
                                         ![t].gen_error = "remote",
                                         ![t].body = o.data]
                   /\ Goto(t, "em_check")
                   /\ UNCHANGED <<review_text, response>>
              ELSE /\ log' = [log EXCEPT ![t].providers = Append(@, "remote"),
                                         ![t].body = o.data,
                                         ![t].body_field = x.field]
                   /\ review_text' = [review_text EXCEPT ![t] = x.value]
                   /\ Goto(t, "normalize")
                   /\ UNCHANGED response
    /\ UNCHANGED <<globals, files, nreq, pre_locals, decoded>>

\* model.py:55-98 and app.py:77-81: one POST, no retry; every failure is raised
\* and reaches the client as a 500.
GenerateReviewGemini(t) ==
    /\ pc[t] = "gemini"
    /\ \E o \in GeminiOutcomes :
          LET x == ExtractText(o)
              e == IF o.kind = "error" THEN o.e ELSE x.raised
          IN  IF e # "none"
              THEN /\ log' = [log EXCEPT ![t].providers = Append(@, "remote"),
                                         ![t].gen_error = "remote",
                                         ![t].body = o.data]
                   /\ Finish(t, GenerationError(e))
                   /\ UNCHANGED review_text
              ELSE /\ log' = [log EXCEPT ![t].providers = Append(@, "remote"),
                                         ![t].body = o.data,
                                         ![t].body_field = x.field]
                   /\ review_text' = [review_text EXCEPT ![t] = x.value]
                   /\ Goto(t, "normalize")
                   /\ UNCHANGED response
    /\ UNCHANGED <<globals, files, nreq, pre_locals, decoded>>

\* ------------------------------------------------------------ _ensure_model
\* The exception of _ensure_model escapes generate_review.
DevFallbackRaises(t, e) ==
    /\ log' = [log EXCEPT ![t].init_error = e, ![t].gen_error = "local"]
    /\ Finish(t, GenerationError(e))
    /\ UNCHANGED review_text

\* model.py:119-123: generate_review catches the exception of _ensure_model
\* and returns the dev review.
DevFallback(t, e) ==
    /\ review_text' = [review_text EXCEPT ![t] = DevReview(e)]
    /\ log' = [log EXCEPT ![t].providers = Append(@, "fallback"),
                          ![t].init_error = e]
    /\ Goto(t, "normalize")
    /\ UNCHANGED response

\* model.py:36-37: nothing guards the test; it is one step of the thread.
EnsureModelCheck(t) ==
    /\ pc[t] = "em_check"
    /\ Goto(t, IF _model # "None" /\ _tokenizer # "None" THEN "infer" ELSE "em_device")
    /\ UNCHANGED <<globals, files, nreq, pre_locals, gen_locals, response, log>>

\* model.py:19-31: "cpu" when torch is missing, else a torch.device.
ChooseDevice == {"cpu", "torch.device"}

\* model.py:38
EnsureModelDevice(t) ==
    /\ pc[t] = "em_device"
    /\ \E d \in ChooseDevice : _device' = d
    /\ Goto(t, "em_tokenizer")
    /\ UNCHANGED <<GEMINI_API_KEY, _tokenizer, _model, loads, files, nreq,
                   pre_locals, gen_locals, response, log>>

\* model.py:41-43: the import of transformers or the tokenizer load may raise.
EnsureModelTokenizer(t) ==
    /\ pc[t] = "em_tokenizer"
    /\ \/ /\ _tokenizer' = "tokenizer"
          /\ loads' = [loads EXCEPT !.tokenizer = @ + 1]
          /\ Goto(t, "em_model")
          /\ UNCHANGED <<review_text, response, log>>
       \/ /\ \E e \in {"No module named 'transformers'", "tokenizer files not found"} :
                DevFallback(t, e)
          /\ UNCHANGED <<_tokenizer, loads>>
    /\ UNCHANGED <<GEMINI_API_KEY, _model, _device, files, nreq, pre_locals, decoded>>

\* model.py:44
EnsureModelLoad(t) ==
    /\ pc[t] = "em_model"
    /\ \/ /\ _model' = "model"
          /\ loads' = [loads EXCEPT !.model = @ + 1]
          /\ Goto(t, "em_to")
          /\ UNCHANGED <<review_text, response, log>>
       \/ /\ DevFallback(t, "model weights not found")
          /\ UNCHANGED <<_model, loads>>
    /\ UNCHANGED <<GEMINI_API_KEY, _tokenizer, _device, files, nreq, pre_locals, decoded>>

\* model.py:45-52: the model is moved to the device; on any failure the
\* device becomes "cpu".
EnsureModelTo(t) ==
    /\ pc[t] = "em_to"
    /\ \/ UNCHANGED _device
       \/ _device' = "cpu"
    /\ Goto(t, "infer")
    /\ UNCHANGED <<GEMINI_API_KEY, _tokenizer, _model, loads, files, nreq,
                   pre_locals, gen_locals, response, log>>

\* The positions between the test of model.py:36 and the end of _ensure_model.
LoadPcs == {"em_device", "em_tokenizer", "em_model", "em_to"}

\* model.py:125-144: the assertion, then tokenizer, model.generate and decode;
\* an exception of any of them leaves generate_review.
Infer(t) ==
    /\ pc[t] = "infer"
    /\ IF _tokenizer = "None" \/ _model = "None" \/ _device = "None"
          THEN /\ log' = [log EXCEPT ![t].gen_error = "local"]
               /\ Finish(t, GenerationError("AssertionError"))
               /\ UNCHANGED review_text
          ELSE \/ \E x \in SampleTexts :
                     /\ review_text' = [review_text EXCEPT ![t] = Str(x)]
                     /\ log' = [log EXCEPT ![t].providers = Append(@, "local"),
                                           ![t].infer = @ + 1]
                     /\ Goto(t, "normalize")
                     /\ UNCHANGED response
               \/ /\ log' = [log EXCEPT ![t].providers = Append(@, "local"),
                                        ![t].infer = @ + 1,
                                        ![t].gen_error = "local"]
                  /\ Finish(t, GenerationError("RuntimeError in generate"))
                  /\ UNCHANGED review_text
    /\ UNCHANGED <<globals, files, nreq, pre_locals, decoded>>

\* ------------------------------------------------------------ JSON recovery
\* The lexemes of a provider's text: braces, object members ("key": value,
\* separators included), a prose word, and a JSON scalar literal.
MemberLexemes == {"kR", "kP", "kFn"}

Lexemes == {"{", "}", "w", "1"} \cup MemberLexemes

\* The key a member lexeme carries.
MemberKey(m) ==
    CASE m = "kR" -> "review" [] m = "kP" -> "patches" [] OTHER -> "full_file"

\* The value a member lexeme carries: "review": "ok", "patches": [p1, p2],
\* "full_file": null.
MemberValue(m) ==
    CASE m = "kR" -> Str(<<"ok">>)
      [] m = "kP" -> <<"replace_line 2", "replace_range 3 4">>
      [] OTHER -> "null"

\* The dict of the members s[2..Len(s)-1]; a repeated key keeps its last value.
ObjectOf(s) ==
    LET idx == 2..(Len(s) - 1)
        keys == {MemberKey(s[i]) : i \in idx}
        last(k) == CHOOSE i \in idx :
                      /\ MemberKey(s[i]) = k
                      /\ \A j \in idx : MemberKey(s[j]) = k => j <= i
    IN  [k \in keys |-> MemberValue(s[last(k)])]

\* json.loads over the lexemes: a number, or an object of members; anything
\* else raises.
JsonLoads(s) ==
    IF s = <<"1">>
    THEN [ok |-> TRUE, value |-> [kind |-> "number", obj |-> EmptyObj]]
    ELSE IF /\ Len(s) >= 2
            /\ s[1] = "{"
            /\ s[Len(s)] = "}"
            /\ \A i \in 2..(Len(s) - 1) : s[i] \in MemberLexemes
    THEN [ok |-> TRUE, value |-> [kind |-> "dict", obj |-> ObjectOf(s)]]
    ELSE [ok |-> FALSE, value |-> NoDecoded]

\* re.search(r"(\{[\s\S]*\})", s): the leftmost "{" that a "}" follows, up to
\* the last "}".
RegexSearch(s) ==
    LET opens == {i \in 1..Len(s) : s[i] = "{"}
        closes == {i \in 1..Len(s) : s[i] = "}"}
        first == CHOOSE i \in opens : \A j \in opens : i <= j
        last == CHOOSE i \in closes : \A j \in closes : j <= i
    IN  IF opens # {} /\ closes # {} /\ first < last
        THEN [found |-> TRUE, group |-> SubSeq(s, first, last)]
        ELSE [found |-> FALSE, group |-> <<>>]

\* dict.get(k, default)
Get(d, k, default) == IF k \in DOMAIN d THEN d[k] ELSE default

\* d[k] = v
SetKey(d, k, v) == [x \in DOMAIN d \cup {k} |-> IF x = k THEN v ELSE d[x]]

\* The payload built without its static_report entry.
BaselineNoReport(text, report) == [review |-> text]

\* app.py:85
Baseline(text, report) == [review |-> text, static_report |-> report]

\* The fields taken from a decoded dict, with full_file tested for truth
\* (decoded.get('full_file')) instead of for presence.
NormalizeFieldsTruthy(payload, dec) ==
    IF dec.kind = "dict"
    THEN LET p1 == SetKey(payload, "review", Get(dec.obj, "review", payload["review"]))
             p2 == SetKey(p1, "patches", Get(dec.obj, "patches", <<>>))
         IN  IF "full_file" \in DOMAIN dec.obj /\ dec.obj["full_file"] # "null"
             THEN SetKey(p2, "full_file", dec.obj["full_file"])
             ELSE p2
    ELSE payload

\* app.py:100-105: the fields taken from a decoded dict.
NormalizeFields(payload, dec) ==
    IF dec.kind = "dict"
    THEN LET p1 == SetKey(payload, "review", Get(dec.obj, "review", payload["review"]))
             p2 == SetKey(p1, "patches", Get(dec.obj, "patches", <<>>))
         IN  IF "full_file" \in DOMAIN dec.obj
             THEN SetKey(p2, "full_file", dec.obj["full_file"])
             ELSE p2
    ELSE payload

Ok(payload) == [status |-> 200, detail |-> <<>>, payload |-> payload]

\* app.py:85-86: without a credential, or for a text that is no str, the
\* payload is returned as built.
NormalizeStart(t) ==
    /\ pc[t] = "normalize"
    /\ IF GEMINI_API_KEY /\ review_text[t].isstr
          THEN /\ Goto(t, "json_whole")
               /\ UNCHANGED response
          ELSE Finish(t, Ok(Baseline(review_text[t], static_report[t])))
    /\ UNCHANGED <<globals, files, nreq, pre_locals, gen_locals, log>>

\* app.py:88-91: the whole text is decoded first.
JsonWhole(t) ==
    /\ pc[t] = "json_whole"
    /\ LET r == JsonLoads(review_text[t].text)
       IN  /\ decoded' = [decoded EXCEPT ![t] = r.value]
           /\ Goto(t, IF r.ok THEN "json_apply" ELSE "json_substring")
    /\ Logged(t, "attempts", Append(log[t].attempts, "whole"))
    /\ UNCHANGED <<globals, files, nreq, pre_locals, review_text, response>>

\* The second stage with a lazy pattern (\{[\s\S]*?\}): the span ends at the
\* first "}" after the first "{".
JsonSubstringLazy(t) ==
    /\ pc[t] = "json_substring"
    /\ LET s == review_text[t].text
           opens == {i \in 1..Len(s) : s[i] = "{"}
           first == CHOOSE i \in opens : \A j \in opens : i <= j
           closes == {i \in 1..Len(s) : s[i] = "}" /\ opens # {} /\ i > first}
           close == CHOOSE i \in closes : \A j \in closes : i <= j
       IN  IF opens # {} /\ closes # {}
           THEN /\ decoded' = [decoded EXCEPT ![t] =
                                  JsonLoads(SubSeq(s, first, close)).value]
                /\ Logged(t, "attempts", Append(log[t].attempts, "substring"))
           ELSE UNCHANGED <<decoded, log>>
    /\ Goto(t, "json_apply")
    /\ UNCHANGED <<globals, files, nreq, pre_locals, review_text, response>>

\* app.py:92-98: only after that failed, the braces' span is decoded.
JsonSubstring(t) ==
    /\ pc[t] = "json_substring"
    /\ LET m == RegexSearch(review_text[t].text)
       IN  IF m.found
           THEN /\ decoded' = [decoded EXCEPT ![t] = JsonLoads(m.group).value]
                /\ Logged(t, "attempts", Append(log[t].attempts, "substring"))
           ELSE UNCHANGED <<decoded, log>>
    /\ Goto(t, "json_apply")
    /\ UNCHANGED <<globals, files, nreq, pre_locals, review_text, response>>

\* app.py:100-107
JsonApply(t) ==
    /\ pc[t] = "json_apply"
    /\ Finish(t, Ok(NormalizeFields(Baseline(review_text[t], static_report[t]),
                                    decoded[t])))
    /\ UNCHANGED <<globals, files, nreq, pre_locals, gen_locals, log>>

\* The response has been sent; the thread takes the next request.  The locals
\* of the finished call are gone.
Done(t) ==
    /\ pc[t] = "done"
    /\ nreq < MaxRequests
    /\ Goto(t, "idle")
    /\ code' = [code EXCEPT ![t] = NoCode]
    /\ tmp_path' = [tmp_path EXCEPT ![t] = 0]
    /\ static_report' = [static_report EXCEPT ![t] = ""]
    /\ prompt' = [prompt EXCEPT ![t] = <<>>]
    /\ review_text' = [review_text EXCEPT ![t] = NoText]
    /\ decoded' = [decoded EXCEPT ![t] = NoDecoded]
    /\ response' = [response EXCEPT ![t] = NoResponse]
    /\ log' = [log EXCEPT ![t] = NoLog]
    /\ UNCHANGED <<globals, files, nreq>>

\* ------------------------------------------------------------ specifications
Recover(t) ==
    \/ NormalizeStart(t)
    \/ JsonWhole(t)
    \/ JsonSubstring(t)
    \/ JsonApply(t)

\* The steps of review_code a request can take.  With a credential the
\* request ends in ComposePrompt, so the remote provider and the JSON
\* recovery, which need one, are steps of SpecCall and SpecNorm below.
Next ==
    \E t \in Threads :
        \/ Receive(t)
        \/ Validate(t)
        \/ SaEnter(t)
        \/ SaRun(t)
        \/ SaFinally(t)
        \/ ComposePrompt(t)
        \/ GenerateReview(t)
        \/ EnsureModelCheck(t)
        \/ EnsureModelDevice(t)
        \/ EnsureModelTokenizer(t)
        \/ EnsureModelLoad(t)
        \/ EnsureModelTo(t)
        \/ Infer(t)
        \/ NormalizeStart(t)
        \/ Done(t)

\* The service: every thread idle, nothing loaded.
Spec == Init /\ [][Next]_vars

\* ---------------------------------------- concurrent calls of generate_review
\* The request a thread carries when it reaches generate_review under SpecLoad.
LoadCode == [isstr |-> TRUE, len |-> 1]

LoadLog == [NoLog EXCEPT !.code_field = "str", !.sa = 1, !.tool = "ok"]

\* A thread whose call has come back serves its next request up to the call
\* of generate_review (app.py:28-78 again).
NextCall(t) ==
    /\ pc[t] \in {"normalize", "done"}
    /\ nreq < MaxRequests
    /\ nreq' = nreq + 1
    /\ Goto(t, "generate")
    /\ review_text' = [review_text EXCEPT ![t] = NoText]
    /\ response' = [response EXCEPT ![t] = NoResponse]
    /\ log' = [log EXCEPT ![t] = LoadLog]
    /\ UNCHANGED <<globals, files, pre_locals, decoded>>

NextLoad ==
    \E t \in Threads :
        \/ GenerateReview(t)
        \/ EnsureModelCheck(t)
        \/ EnsureModelDevice(t)
        \/ EnsureModelTokenizer(t)
        \/ EnsureModelLoad(t)
        \/ EnsureModelTo(t)
        \/ Infer(t)
        \/ NextCall(t)

\* A process with no remote credential in which every thread has accepted a
\* request and is about to call generate_review for the first time.
InitLoad ==
    /\ GEMINI_API_KEY = FALSE
    /\ _tokenizer = "None"
    /\ _model = "None"
    /\ _device = "None"
    /\ loads = [tokenizer |-> 0, model |-> 0]
    /\ files = {}
    /\ nreq = NumThreads
    /\ pc = [t \in Threads |-> "generate"]
    /\ code = [t \in Threads |-> LoadCode]
    /\ tmp_path = [t \in Threads |-> 0]
    /\ static_report = [t \in Threads |-> "STDOUT"]
    /\ prompt = [t \in Threads |-> Compose(FALSE, LoadCode, "STDOUT").prompt]
    /\ review_text = [t \in Threads |-> NoText]
    /\ decoded = [t \in Threads |-> NoDecoded]
    /\ response = [t \in Threads |-> NoResponse]
    /\ log = [t \in Threads |-> LoadLog]

SpecLoad == InitLoad /\ [][NextLoad]_vars

\* ------------------------------------------- generate_review as a function
\* generate_review called with some prompt, with or without a credential, by
\* a caller that handles its exception as app.py:77-81 does.  Calls of the
\* remote provider share no state, so with a credential one caller is
\* followed; without one every thread calls, as under SpecLoad.
NextGen ==
    \E t \in Threads :
        \/ GenerateReview(t)
        \/ GenerateReviewGemini(t)
        \/ EnsureModelCheck(t)
        \/ EnsureModelDevice(t)
        \/ EnsureModelTokenizer(t)
        \/ EnsureModelLoad(t)
        \/ EnsureModelTo(t)
        \/ Infer(t)
        \/ NextCall(t)

InitCall ==
    /\ GEMINI_API_KEY \in BOOLEAN
    /\ _tokenizer = "None"
    /\ _model = "None"
    /\ _device = "None"
    /\ loads = [tokenizer |-> 0, model |-> 0]
    /\ files = {}
    /\ nreq = NumThreads
    /\ pc = [t \in Threads |->
                IF GEMINI_API_KEY /\ t \notin Workers THEN "off" ELSE "generate"]
    /\ code = [t \in Threads |-> LoadCode]
    /\ tmp_path = [t \in Threads |-> 0]
    /\ static_report = [t \in Threads |-> "STDOUT"]
    /\ prompt = [t \in Threads |-> Compose(FALSE, LoadCode, "STDOUT").prompt]
    /\ review_text = [t \in Threads |-> NoText]
    /\ decoded = [t \in Threads |-> NoDecoded]
    /\ response = [t \in Threads |-> NoResponse]
    /\ log = [t \in Threads |-> LoadLog]

SpecCall == InitCall /\ [][NextGen]_vars

\* ------------------------------------------------- recovery over every text
\* Every text of at most MaxLen lexemes.
Texts == UNION {[1..n -> Lexemes] : n \in 0..MaxLen}

Reports == {"", "STDOUT"}

NextNorm == \E t \in Workers : Recover(t)

\* app.py:85-107 as a function of review_text, static_report and
\* GEMINI_API_KEY: generate_review has just returned some text.
InitNorm ==
    /\ GEMINI_API_KEY \in BOOLEAN
    /\ _tokenizer = "None"
    /\ _model = "None"
    /\ _device = "None"
    /\ loads = [tokenizer |-> 0, model |-> 0]
    /\ files = {}
    /\ nreq = 1
    /\ pc = [t \in Threads |-> IF t \in Workers THEN "normalize" ELSE "off"]
    /\ code = [t \in Threads |-> LoadCode]
    /\ tmp_path = [t \in Threads |-> 0]
    /\ \E r \in Reports :
          /\ static_report = [t \in Threads |-> IF t \in Workers THEN r ELSE ""]
          /\ prompt = [t \in Threads |->
                          IF t \in Workers THEN Compose(FALSE, LoadCode, r).prompt
                          ELSE <<>>]
    /\ \E x \in {Str(s) : s \in Texts} \cup (IF GEMINI_API_KEY THEN {NonStr} ELSE {}) :
          review_text = [t \in Threads |-> IF t \in Workers THEN x ELSE NoText]
    /\ decoded = [t \in Threads |-> NoDecoded]
    /\ response = [t \in Threads |-> NoResponse]
    /\ log = [t \in Threads |->
                IF t \notin Workers THEN NoLog
                ELSE IF GEMINI_API_KEY
                THEN [LoadLog EXCEPT !.gen = 1, !.providers = <<"remote">>]
                ELSE [LoadLog EXCEPT !.gen = 1, !.providers = <<"local">>, !.infer = 1]]

SpecNorm == InitNorm /\ [][NextNorm]_vars

\* ------------------------------------------------------------------ claims
Range(s) == {s[i] : i \in 1..Len(s)}

\* The request of thread t carries a str longer than the limit.
Oversize(t) == log[t].code_field = "str" /\ code[t].len > MAX_CODE_LENGTH

\* C1: a request whose code is longer than 20,000 goes no further than the
\* validation of review_code: it is answered 413 'Code payload too large' and
\* neither run_static_analysis nor generate_review is called for it.
C1_OversizeRejected ==
    \A t \in Threads :
        Oversize(t) =>
            /\ pc[t] \in {"validate", "done"}
            /\ log[t].sa = 0
            /\ log[t].gen = 0
            /\ pc[t] = "done" =>
                  /\ response[t].status = 413
                  /\ response[t].detail = <<"Code payload too large">>

C1_Witness ==
    \E t \in Threads :
        /\ Oversize(t)
        /\ code[t].len = MAX_CODE_LENGTH + 1
        /\ pc[t] = "done"
        /\ response[t].status = 413

\* The request of thread t carries no usable code: an empty str, or a field
\* that is absent or no str.
EmptyCode(t) == log[t].code_field = "str" /\ code[t].len = 0

NoStrCode(t) == log[t].code_field \in {"absent", "null", "number"}

\* C2 (as claimed): empty, absent and non-string code get the same rejection,
\* 400 with the reason 'Missing code in request', before any analysis or
\* generation call.
C2_SameMissingCodeRejection ==
    \A t \in Threads :
        (pc[t] = "done" /\ (EmptyCode(t) \/ NoStrCode(t))) =>
            /\ response[t].status = 400
            /\ response[t].detail = <<"Missing code in request">>
            /\ log[t].sa = 0
            /\ log[t].gen = 0

\* C2 (amended): an empty str is rejected by review_code with 400 'Missing code
\* in request'; a code field that is absent or not accepted as a str is rejected
\* by the request model with 422, before review_code runs; in both cases no
\* analysis or generation call is made.
C2_MissingCodeRejected ==
    \A t \in Threads :
        /\ EmptyCode(t) =>
              /\ pc[t] \in {"validate", "done"}
              /\ log[t].sa = 0
              /\ log[t].gen = 0
              /\ pc[t] = "done" =>
                    /\ response[t].status = 400
                    /\ response[t].detail = <<"Missing code in request">>
        /\ NoStrCode(t) =>
              /\ pc[t] = "done"
              /\ response[t].status = 422
              /\ log[t].sa = 0
              /\ log[t].gen = 0

C2_Witness ==
    \E t \in Threads :
        /\ EmptyCode(t)
        /\ pc[t] = "done"
        /\ response[t].status = 400

\* C3: in a process with no remote credential the load of _ensure_model is
\* performed at most once: no two callers are past the test of model.py:36 at
\* the same time, and the model is not loaded a second time.
C3_LoadAtMostOnce ==
    /\ Cardinality({t \in Threads : pc[t] \in LoadPcs}) <= 1
    /\ loads.model <= 1

\* C4: when run_static_analysis has returned or raised, the scratch file it
\* created no longer exists.
C4_ScratchFileRemoved ==
    \A t \in Threads :
        (pc[t] \notin SaPcs /\ log[t].created # 0) => log[t].created \notin files

\* C5: run_static_analysis never raises to its caller, and its report is not
\* empty when the tool failed, was missing or timed out.
C5_AnalysisTotal ==
    \A t \in Threads :
        (pc[t] \notin SaPcs /\ log[t].sa > 0) =>
            /\ log[t].sa_raised = "none"
            /\ log[t].tool \in {"failed", "missing", "timeout"} => static_report[t] # ""

\* C6: with no remote credential, a call of generate_review whose
\* _ensure_model raised has returned (not raised) the '[DEV REVIEW]' text with
\* the error's description in it, and has not invoked the tokenizer or model.
C6_DevFallback ==
    \A t \in Threads :
        log[t].init_error # "none" =>
            /\ pc[t] = "normalize"
            /\ response[t] = NoResponse
            /\ log[t].gen_error = "none"
            /\ review_text[t].isstr
            /\ Len(review_text[t].text) = 3
            /\ review_text[t].text[1] = "[DEV REVIEW] Model unavailable: "
            /\ review_text[t].text[2] = log[t].init_error
            /\ log[t].infer = 0
            /\ log[t].providers = <<"fallback">>

\* A later call (not the thread's first) fell back after the tokenizer had
\* been loaded and the model could not be.
C6_Witness ==
    \E t \in Threads :
        /\ log[t].init_error = "model weights not found"
        /\ pc[t] = "normalize"
        /\ nreq > NumThreads
        /\ loads.tokenizer >= 2

\* C7: one request has at most one provider producing or failing its result
\* and one call of generate_review; a runtime failure of the remote provider,
\* or of the local provider after _ensure_model succeeded, ends the request
\* with a single 500 carrying the error and no review payload.
C7_FailureSurfaced ==
    \A t \in Threads :
        /\ Len(log[t].providers) <= 1
        /\ log[t].gen <= 1
        /\ log[t].gen_error # "none" =>
              /\ pc[t] = "done"
              /\ response[t].status = 500
              /\ Len(response[t].detail) = 2
              /\ response[t].detail[1] = "Model generation error: "
              /\ DOMAIN response[t].payload = {}
              /\ review_text[t] = NoText
              /\ log[t].providers = <<log[t].gen_error>>
              /\ log[t].init_error = "none"

C7_Witness ==
    \E t \in Threads :
        /\ log[t].gen_error = "local"
        /\ _model = "model"
        /\ pc[t] = "done"
        /\ response[t].status = 500

\* The span from the first "{" to the last "}" of a text, if there is one.
HasSpan(s) ==
    \E i, j \in 1..Len(s) : i < j /\ s[i] = "{" /\ s[j] = "}" /\ \A k \in 1..(i - 1) : s[k] # "{"

Span(s) ==
    LET i == CHOOSE a \in 1..Len(s) : s[a] = "{" /\ \A k \in 1..(a - 1) : s[k] # "{"
        j == CHOOSE b \in 1..Len(s) : s[b] = "}" /\ \A k \in (b + 1)..Len(s) : s[k] # "}"
    IN  SubSeq(s, i, j)

\* Neither the text nor any of its "{"..."}" substrings is JSON.
Unrecoverable(s) ==
    /\ ~JsonLoads(s).ok
    /\ \A i, j \in 1..Len(s) :
          (i < j /\ s[i] = "{" /\ s[j] = "}") => ~JsonLoads(SubSeq(s, i, j)).ok

\* Thread t has answered a request whose text went through the recovery.
Recovered(t) ==
    /\ pc[t] = "done"
    /\ GEMINI_API_KEY
    /\ review_text[t].isstr

Source(s) == IF JsonLoads(s).ok THEN s ELSE Span(s)

\* C9: when a JSON object was recovered, the result has a full_file field
\* exactly when the object has the key, with the object's value (null stays
\* null); review and patches are the object's, or the raw text and the empty
\* list when the object lacks them.
C9_FullFilePresence ==
    \A t \in Threads :
        (Recovered(t) /\ decoded[t].kind = "dict") =>
            LET o == decoded[t].obj
                p == response[t].payload
                src == Range(Source(review_text[t].text))
            IN  /\ response[t].status = 200
                /\ ("full_file" \in DOMAIN p) <=> ("full_file" \in DOMAIN o)
                /\ ("full_file" \in DOMAIN p) <=> ("kFn" \in src)
                /\ "full_file" \in DOMAIN p => p["full_file"] = "null"
                /\ {"review", "patches", "static_report"} \subseteq DOMAIN p
                /\ p["review"] = IF "kR" \in src THEN Str(<<"ok">>) ELSE review_text[t]
                /\ p["patches"] = IF "kP" \in src
                                  THEN <<"replace_line 2", "replace_range 3 4">>
                                  ELSE <<>>
                /\ p["static_report"] = static_report[t]

\* The object {"review": .., "patches": .., "full_file": null} as the whole text.
C9_Witness ==
    \E t \in Threads :
        /\ Recovered(t)
        /\ decoded[t].kind = "dict"
        /\ Range(review_text[t].text) = {"{", "kR", "kP", "kFn", "}"}
        /\ "full_file" \in DOMAIN response[t].payload
        /\ response[t].payload["full_file"] = "null"

Accepted(t) == log[t].code_field = "str" /\ code[t].len \in 1..MAX_CODE_LENGTH

\* C11 (as claimed): an accepted request, whatever run_static_analysis did,
\* has called generate_review exactly once by the time it is answered, and
\* when that call returned text the answer is a 200 with a non-empty review
\* and a static_report field.
C11_PipelineContinues ==
    \A t \in Threads :
        (Accepted(t) /\ pc[t] = "done") =>
            /\ log[t].gen = 1
            /\ log[t].gen_error = "none" =>
                  /\ response[t].status = 200
                  /\ {"review", "static_report"} \subseteq DOMAIN response[t].payload
                  /\ response[t].payload["review"] # NoText

\* The prompt states the JSON shape the structured answer must have.
HasContract(p) ==
    \E i \in DOMAIN p :
        p[i].part = "framing" /\ p[i].text = "Return JSON only with the following shape:"

\* The prompt holds the value v as its code or report, unchanged.
Holds(p, part, v) == \E i \in DOMAIN p : p[i].part = part /\ p[i].text = v

\* C12 (as claimed): composing the prompt never raises, with or without a
\* credential; the prompt holds the submitted code and the static report as
\* they are, and states the JSON contract exactly when there is a credential.
C12_PromptComposed ==
    \A t \in Threads :
        /\ log[t].prompt_raised = "none"
        /\ prompt[t] # <<>> =>
              /\ Holds(prompt[t], "code", code[t])
              /\ Holds(prompt[t], "report", static_report[t])
              /\ HasContract(prompt[t]) <=> GEMINI_API_KEY

\* The field the claimed priority takes the text from: candidates[0].content,
\* then a str output, then text, response, result, and else the whole body.
ClaimedField(d) ==
    IF d.isdict /\ d.candidates = "objects" THEN "candidates"
    ELSE IF d.isdict /\ d.output = "str" THEN "output"
    ELSE IF d.isdict /\ d.text = "present" THEN "text"
    ELSE IF d.isdict /\ d.response = "present" THEN "response"
    ELSE IF d.isdict /\ d.result = "present" THEN "result"
    ELSE "str(data)"

\* C13 (as claimed): whatever JSON body a 200 response carries, the remote
\* provider raises nothing and returns the text of the first field of the
\* priority, or the whole body when "candidates" is empty, no list, or a list
\* whose first element is no object and no other field has a text.
C13_BodyNeverFails ==
    \A t \in Threads :
        (log[t].body # NoData /\ log[t].body.json
           /\ log[t].body.candidates
                 \notin {"objects_no_content", "objects_content_not_str"}) =>
            /\ log[t].gen_error = "none"
            /\ log[t].body_field = ClaimedField(log[t].body)


====
